---------------------------- MODULE Spec2Model ----------------------------
(***************************************************************************)
(* LOGKPREDICT (logk_lib): molecular processing and feature assembly for   *)
(* the prediction of stability constants.                                  *)
(*                                                                         *)
(* The module holds several specifications over one set of variables:      *)
(*   SpecMetal    MolecularProcessor.is_transition_metal                    *)
(*   SpecGraph    MolecularProcessor.set_dative_bonds on a molecular graph  *)
(*   SpecClean    MolecularProcessor.clean_smiles on a SMILES string        *)
(*   SpecCombine  LogKPredictor._combine_features on feature vectors        *)
(*   Spec         LogKPredictor: construction and one prediction call       *)
(* A specification leaves the variables of the other parts at rest.        *)
(***************************************************************************)
EXTENDS Integers, Sequences, FiniteSets

VARIABLES
    atomicNum,      \* is_transition_metal: the atom's atomic number
    verdict,        \* is_transition_metal: "none" before the call, then the answer
    atoms,          \* molecular graph: sequence of atomic numbers (atom idx = position)
    bonds,          \* molecular graph: sequence of bonds [b, e, t], in the graph's bond order
    donors,         \* set_dative_bonds: its argument donor_atoms
    perceived,      \* the bonds (atom pairs) the graph library perceives as aromatic
    sanitizeFails,  \* whether Chem.SanitizeMol reports a failure for this graph
    inBonds,        \* the bonds handed to the latest set_dative_bonds call
    normCount,      \* number of set_dative_bonds calls made on the graph
    smiles,         \* the SMILES string handed to clean_smiles, as a sequence of tokens
    cleaned,        \* the string clean_smiles returned
    cleanDone,      \* whether clean_smiles has returned
    features,       \* _combine_features: the scalar features, in units of 10^-5
    descriptors,    \* _combine_features: descriptors_str, as its ", "-separated fields
    combined,       \* _combine_features: the outcome, [kind, value]
    pc,             \* LogKPredictor: where construction or the prediction call stands
    err,            \* the exception that ended construction or the call, "" when none
    result,         \* the value the call returned: "finite", "nan", "inf"; "" when none
    ctor,           \* what __init__ was given: [model_dir, env_dir, files]
    failedAt,       \* the step that raised err, "" when none
    inputFile,      \* predict_from_file: "none" before it, then what it found at the
                    \* path: "missing" or "read" (a file, read into lines)
    lines,          \* the lines predict_from_file read
    molBlock,       \* the MOL block handed to predict, as its lines
    resultsFile     \* what chemprop_predict left at predictions.csv

vars == <<atomicNum, verdict, atoms, bonds, donors, perceived, sanitizeFails, inBonds, normCount,
          smiles, cleaned, cleanDone, features, descriptors, combined,
          pc, err, result, ctor, failedAt, inputFile, lines, molBlock, resultsFile>>

metalVars == <<atomicNum, verdict>>
graphVars == <<atoms, bonds, donors, perceived, sanitizeFails, inBonds, normCount>>
cleanVars == <<smiles, cleaned, cleanDone>>
combineVars == <<features, descriptors, combined>>
callVars == <<pc, err, result, ctor, failedAt, inputFile, lines, molBlock, resultsFile>>

-----------------------------------------------------------------------------
(* Bounds of the model *)

MaxAtomicNum == 103
MaxAtoms == 3
MaxBonds == 2
MaxNormalize == 2
MaxSmilesLen == 6
LenSlack == 1
MaxLines == 4

-----------------------------------------------------------------------------
(* molecular_processing.py: constants *)

HYDROGEN == 1
BORON_TO_FLUORINE_RANGE == <<5, 9>>
SILICON_TO_CHLORINE_RANGE == <<14, 17>>
BROMINE == 35
DEFAULT_DONOR_ATOMS == {7, 8}

(* The donor_atoms arguments of the model: the default and oxygen alone *)
DonorChoices == {DEFAULT_DONOR_ATOMS, {8}}

(* The elements the input graphs of SpecGraph are built from: N, O and Fe.
   With donor_atoms = {8}, N is an element that is neither metal nor donor. *)
Elements == {7, 8, 26}

(* The Chem.BondType values of the bonds of an input graph; set_dative_bonds
   adds "DATIVE" and "AROMATIC" *)
InputBondTypes == {"SINGLE", "DOUBLE"}

-----------------------------------------------------------------------------
(* MolecularProcessor.is_transition_metal *)

IsTransitionMetalHalfOpen(atomic_num) ==
    LET is_hydrogen == atomic_num = HYDROGEN
        is_boron_to_fluorine ==
            BORON_TO_FLUORINE_RANGE[1] <= atomic_num /\ atomic_num < BORON_TO_FLUORINE_RANGE[2]
        is_silicon_to_chlorine ==
            SILICON_TO_CHLORINE_RANGE[1] <= atomic_num /\ atomic_num < SILICON_TO_CHLORINE_RANGE[2]
        is_bromine == atomic_num = BROMINE
    IN  ~(is_hydrogen \/ is_boron_to_fluorine \/ is_silicon_to_chlorine \/ is_bromine)

IsTransitionMetal(atomic_num) ==
    LET is_hydrogen == atomic_num = HYDROGEN
        is_boron_to_fluorine ==
            BORON_TO_FLUORINE_RANGE[1] <= atomic_num /\ atomic_num <= BORON_TO_FLUORINE_RANGE[2]
        is_silicon_to_chlorine ==
            SILICON_TO_CHLORINE_RANGE[1] <= atomic_num /\ atomic_num <= SILICON_TO_CHLORINE_RANGE[2]
        is_bromine == atomic_num = BROMINE
    IN  ~(is_hydrogen \/ is_boron_to_fluorine \/ is_silicon_to_chlorine \/ is_bromine)

-----------------------------------------------------------------------------
(* The molecular graph (rdkit RWMol) as set_dative_bonds uses it *)

SamePair(bond, i, j) == (bond.b = i /\ bond.e = j) \/ (bond.b = j /\ bond.e = i)

(* RWMol.RemoveBond(i, j): the bond between i and j, in either order, is dropped *)
RemoveBond(bs, i, j) == SelectSeq(bs, LAMBDA bond : ~SamePair(bond, i, j))

(* RWMol.AddBond(i, j, type): a new bond, begin atom i, end atom j, at the end
   of the bond list *)
AddBondReversed(bs, i, j, type) == Append(bs, [b |-> j, e |-> i, t |-> type])

AddBond(bs, i, j, type) == Append(bs, [b |-> i, e |-> j, t |-> type])

(* Atom.GetNeighbors(): the atoms bonded to idx, in bond order *)
RECURSIVE GetNeighbors(_, _)
GetNeighbors(bs, idx) ==
    IF bs = <<>> THEN <<>>
    ELSE LET bond == Head(bs)
             rest == GetNeighbors(Tail(bs), idx)
         IN  IF bond.b = idx THEN <<bond.e>> \o rest
             ELSE IF bond.e = idx THEN <<bond.b>> \o rest
             ELSE rest

(* MolecularProcessor._find_transition_metals: atom indices, in atom order *)
RECURSIVE MetalsFrom(_, _)
MetalsFrom(as, i) ==
    IF i > Len(as) THEN <<>>
    ELSE IF IsTransitionMetal(as[i]) THEN <<i>> \o MetalsFrom(as, i + 1)
    ELSE MetalsFrom(as, i + 1)

FindTransitionMetals(as) == MetalsFrom(as, 1)

(* The inner loop of _convert_bonds_to_dative for one metal: the neighbours
   are those the metal had when the loop started *)
RECURSIVE ConvertNeighbors(_, _, _, _, _)
ConvertNeighbors(bs, as, metal, nbrs, donor_atoms) ==
    IF nbrs = <<>> THEN bs
    ELSE LET neighbor == Head(nbrs)
             next == IF as[neighbor] \in donor_atoms
                     THEN AddBond(RemoveBond(bs, neighbor, metal), neighbor, metal, "DATIVE")
                     ELSE bs
         IN  ConvertNeighbors(next, as, metal, Tail(nbrs), donor_atoms)

(* MolecularProcessor._convert_bonds_to_dative *)
RECURSIVE ConvertBondsToDative(_, _, _, _)
ConvertBondsToDative(bs, as, metals, donor_atoms) ==
    IF metals = <<>> THEN bs
    ELSE LET metal == Head(metals)
             done == ConvertNeighbors(bs, as, metal, GetNeighbors(bs, metal), donor_atoms)
         IN  ConvertBondsToDative(done, as, Tail(metals), donor_atoms)

Pair(bond) == {bond.b, bond.e}

(* MolecularProcessor._sanitize_molecule: Chem.SanitizeMol with the KEKULIZE and
   SETAROMATICITY flags and catchErrors=True.  A failure is captured and the
   bonds stay as they are; otherwise every covalent bond the library perceives
   as aromatic is given the aromatic bond type. *)
SanitizeKekulizeOnly(bs, arom, fails) ==
    IF fails THEN bs
    ELSE [k \in 1..Len(bs) |->
            IF Pair(bs[k]) \in arom /\ bs[k].t # "DATIVE"
            THEN [bs[k] EXCEPT !.t = IF bs[k].t = "AROMATIC" THEN "SINGLE" ELSE "AROMATIC"]
            ELSE bs[k]]

SanitizeMolecule(bs, arom, fails) ==
    IF fails THEN bs
    ELSE [k \in 1..Len(bs) |->
            IF Pair(bs[k]) \in arom /\ bs[k].t # "DATIVE"
            THEN [bs[k] EXCEPT !.t = "AROMATIC"]
            ELSE bs[k]]

(* MolecularProcessor.set_dative_bonds: the bonds of the returned RWMol *)
SetDativeBonds(bs, as, donor_atoms, arom, fails) ==
    LET metals == FindTransitionMetals(as)
        converted == ConvertBondsToDative(bs, as, metals, donor_atoms)
    IN  SanitizeMolecule(converted, arom, fails)

(* Structural content of a bond list: for each bond its atom pair, its
   classification and, for a dative bond, its direction *)
Content(bs) ==
    {IF bs[k].t = "DATIVE"
        THEN [pair |-> Pair(bs[k]), t |-> "DATIVE", from |-> bs[k].b]
        ELSE [pair |-> Pair(bs[k]), t |-> bs[k].t, from |-> 0] : k \in 1..Len(bs)}

-----------------------------------------------------------------------------
(* MolecularProcessor.clean_smiles.  A SMILES string is a sequence of tokens:
   the dative markers "->[" and "]<-" (three characters each, matched by the
   patterns only as a whole) and single characters: an upper-case letter
   ("N", "H"), a lower-case letter ("e"), a digit ("2") and "+". *)

SmilesTokens == {"->[", "N", "e", "H", "2", "+", "]<-"}
UpperCase == {"N", "H"}
LowerCase == {"e"}
Digits == {"2"}

At(s, i) == IF i >= 1 /\ i <= Len(s) THEN s[i] ELSE ""

NoMatch == [keep |-> 0, drop |-> 0]

(* metal_hydrogen_pattern (->\[[A-Z][a-z]?)(H\d?) tried at position i: the
   lengths of group 1 (kept) and group 2 (dropped); the optional parts are
   greedy *)
MetalHydrogenMatchNoLower(s, i) ==
    IF At(s, i) = "->[" /\ At(s, i + 1) \in UpperCase /\ At(s, i + 2) = "H"
    THEN [keep |-> 2, drop |-> IF At(s, i + 3) \in Digits THEN 2 ELSE 1]
    ELSE NoMatch

MetalHydrogenMatch(s, i) ==
    IF At(s, i) = "->[" /\ At(s, i + 1) \in UpperCase
    THEN IF At(s, i + 2) \in LowerCase /\ At(s, i + 3) = "H"
         THEN [keep |-> 3, drop |-> IF At(s, i + 4) \in Digits THEN 2 ELSE 1]
         ELSE IF At(s, i + 2) = "H"
         THEN [keep |-> 2, drop |-> IF At(s, i + 3) \in Digits THEN 2 ELSE 1]
         ELSE NoMatch
    ELSE NoMatch

(* \+\d?\]<- tried at position j: its length, 0 when it does not match *)
ChargeCloseLen(s, j) ==
    IF At(s, j) = "+"
    THEN IF At(s, j + 1) \in Digits /\ At(s, j + 2) = "]<-" THEN 3
         ELSE IF At(s, j + 1) = "]<-" THEN 2
         ELSE 0
    ELSE 0

(* hydrogen_bracket_pattern (H\d?)(\+\d?\]<-) tried at position i: the
   lengths of group 1 (dropped) and group 2 (kept) *)
HydrogenBracketMatch(s, i) ==
    IF At(s, i) = "H"
    THEN IF At(s, i + 1) \in Digits /\ ChargeCloseLen(s, i + 2) > 0
         THEN [keep |-> ChargeCloseLen(s, i + 2), drop |-> 2]
         ELSE IF ChargeCloseLen(s, i + 1) > 0
         THEN [keep |-> ChargeCloseLen(s, i + 1), drop |-> 1]
         ELSE NoMatch
    ELSE NoMatch

(* re.sub(metal_hydrogen_pattern, r"\1", s): leftmost non-overlapping matches,
   scanning on after each match *)
RECURSIVE SubMetalHydrogen(_, _)
SubMetalHydrogen(s, i) ==
    IF i > Len(s) THEN <<>>
    ELSE LET m == MetalHydrogenMatch(s, i)
         IN  IF m.keep > 0
             THEN SubSeq(s, i, i + m.keep - 1) \o SubMetalHydrogen(s, i + m.keep + m.drop)
             ELSE <<s[i]>> \o SubMetalHydrogen(s, i + 1)

(* re.sub(hydrogen_bracket_pattern, r"\2", s) *)
RECURSIVE SubHydrogenBracket(_, _)
SubHydrogenBracket(s, i) ==
    IF i > Len(s) THEN <<>>
    ELSE LET m == HydrogenBracketMatch(s, i)
         IN  IF m.keep > 0
             THEN SubSeq(s, i + m.drop, i + m.drop + m.keep - 1)
                      \o SubHydrogenBracket(s, i + m.drop + m.keep)
             ELSE <<s[i]>> \o SubHydrogenBracket(s, i + 1)

CleanSmiles(s) == SubHydrogenBracket(SubMetalHydrogen(s, 1), 1)

SmilesStrings == UNION {[1..n -> SmilesTokens] : n \in 0..MaxSmilesLen}

-----------------------------------------------------------------------------
(* predictor.py: _combine_features.  Numbers are fixed-point integers in units
   of 10^-5.  A string of ", "-separated text is the sequence of its fields; a
   field is <<v>> for the text of the number v and <<>> for the empty text. *)

FEATURE_MASK ==
    <<FALSE, TRUE, FALSE, FALSE, TRUE, TRUE, TRUE, TRUE, TRUE, TRUE, TRUE,
      FALSE, FALSE, TRUE, TRUE, TRUE, TRUE, FALSE, TRUE, TRUE, TRUE, TRUE,
      FALSE, TRUE, TRUE, TRUE, FALSE, FALSE, FALSE, FALSE, FALSE, FALSE,
      FALSE, FALSE, TRUE, FALSE, FALSE, FALSE, FALSE, FALSE, FALSE, TRUE,
      FALSE, FALSE, FALSE, FALSE, FALSE, FALSE, FALSE, FALSE>>

(* The number of scalar features left of the 12 EXPECTED_FEATURES when
   _parse_features has dropped the first two, and the number of
   SELECTED_DESCRIPTORS *)
NumExpectedFeatures == 12
NumScalarFeatures == NumExpectedFeatures - 2
NumDescriptors == 40

(* round(f, 4): to the nearest multiple of 10^-4, an exact tie to the even one *)
Round4(f) ==
    LET q == f \div 10
        r == f % 10
    IN  IF r < 5 THEN 10 * q
        ELSE IF r > 5 THEN 10 * (q + 1)
        ELSE IF q % 2 = 0 THEN 10 * q ELSE 10 * (q + 1)

(* ", ".join(map(str, xs)): the empty list gives the empty string, whose only
   field is the empty text *)
StrJoin(xs) == IF xs = <<>> THEN << <<>> >> ELSE [i \in 1..Len(xs) |-> <<xs[i]>>]

(* all_features[FEATURE_MASK] for arrays of equal length: the entries at the
   true positions, in order *)
RECURSIVE BooleanIndexShifted(_, _)
BooleanIndexShifted(a, mask) ==
    IF Len(a) < 2 \/ mask = <<>> THEN <<>>
    ELSE (IF Head(mask) THEN <<a[2]>> ELSE <<>>) \o BooleanIndexShifted(Tail(a), Tail(mask))

RECURSIVE BooleanIndex(_, _)
BooleanIndex(a, mask) ==
    IF a = <<>> \/ mask = <<>> THEN <<>>
    ELSE (IF Head(mask) THEN <<Head(a)>> ELSE <<>>) \o BooleanIndex(Tail(a), Tail(mask))

Raised(kind) == [kind |-> kind, value |-> <<>>]

(* LogKPredictor._combine_features *)
CombineFeatures(fs, descriptors_str) ==
    LET rounded_features == [i \in 1..Len(fs) |-> Round4(fs[i])]
        feature_str == StrJoin(rounded_features)
        combined_str == feature_str \o descriptors_str
    IN  IF \E i \in 1..Len(combined_str) : combined_str[i] = <<>>
        THEN Raised("ValueError")              \* float("")
        ELSE LET all_features == [i \in 1..Len(combined_str) |-> combined_str[i][1]]
             IN  IF Len(all_features) # Len(FEATURE_MASK)
                 THEN Raised("IndexError")     \* boolean index of another length
                 ELSE [kind |-> "ok",
                       value |-> StrJoin(BooleanIndex(all_features, FEATURE_MASK))]

(* Input vectors: lists of distinct values; the scalar values are multiples of
   1/32 = 0.03125, which floats hold exactly *)
FeatureLens == {0} \cup ((NumScalarFeatures - LenSlack)..(NumScalarFeatures + LenSlack))
DescriptorLens == (NumDescriptors - LenSlack)..(NumDescriptors + LenSlack)

FeatureLists ==
    {[i \in 1..n |-> base + i * step] :
        n \in FeatureLens, base \in {-31250, 0, 6250}, step \in {3125, 9375}}

DescriptorStrings ==
    {[i \in 1..n |-> <<base + i * step>>] :
        n \in DescriptorLens, base \in {0, 100003}, step \in {7, 11}}
    \cup {<< <<>> >>}

-----------------------------------------------------------------------------
(* predictor.py: LogKPredictor.__init__ *)

DirNames == {"dirA", "dirB"}

(* LogKPredictor._determine_model_directory; "" stands for None or an empty
   string, which the code treats alike *)
DetermineModelDirectory(model_dir, env_dir) ==
    IF model_dir # "" THEN [kind |-> "ok", dir |-> model_dir]
    ELSE IF env_dir = "" THEN [kind |-> "EnvironmentError", dir |-> ""]
    ELSE [kind |-> "ok", dir |-> env_dir]

(* LogKPredictor._validate_model_exists; files is the set of directories that
   hold a model.pt *)
ValidateModelExistsUnchecked(dir, files) == "ok"

ValidateModelExists(dir, files) ==
    IF dir \notin files THEN "ModelNotFoundError" ELSE "ok"

(* __init__: the exception it raises, "ok" when the object is constructed *)
InitOutcome(model_dir, env_dir, files) ==
    LET d == DetermineModelDirectory(model_dir, env_dir)
    IN  IF d.kind # "ok" THEN d.kind ELSE ValidateModelExists(d.dir, files)

-----------------------------------------------------------------------------
(* predictor.py: predict_from_file.  A line of the input file is one of four
   kinds; its whitespace-separated tokens are fields as above (<<v>> the text
   of a number, <<>> text that float() rejects). *)

LineKinds == {"text", "features", "short", "end"}

LineTokens(line) ==
    CASE line = "features" -> [i \in 1..NumExpectedFeatures |-> <<i * 3125>>]
      [] line = "short"    -> [i \in 1..(NumExpectedFeatures - 1) |-> <<i * 3125>>]
      [] line = "text"     -> << <<>>, <<>>, <<>> >>
      [] line = "end"      -> << <<>> >>            \* the one token $$$$

(* line.strip() == "$$$$" *)
IsEndMarker(line) == line = "end"

(* LogKPredictor._parse_features *)
ParseFeatures(feature_line) ==
    LET feature_values == LineTokens(feature_line)
        selected_features == SubSeq(feature_values, 3, Len(feature_values))
    IN  IF \E i \in 1..Len(selected_features) : selected_features[i] = <<>>
        THEN Raised("InvalidInputError")       \* ValueError from float(), re-raised
        ELSE [kind |-> "ok",
              value |-> [i \in 1..Len(selected_features) |-> selected_features[i][1]]]

(* The loop of _extract_mol_block: the lines before the first end marker *)
RECURSIVE MolLines(_)
MolLines(ls) ==
    IF ls = <<>> \/ IsEndMarker(Head(ls)) THEN <<>>
    ELSE <<Head(ls)>> \o MolLines(Tail(ls))

(* LogKPredictor._extract_mol_block *)
ExtractMolBlockNoCheck(ls) == [kind |-> "ok", value |-> MolLines(ls)]

ExtractMolBlock(ls) ==
    LET mol_lines == MolLines(ls)
    IN  IF mol_lines = <<>> THEN Raised("InvalidInputError")
        ELSE [kind |-> "ok", value |-> mol_lines]

(* predict_from_file up to its call of predict: [kind, features, mol_block] *)
FileOutcome(kind, fs, mb) == [kind |-> kind, features |-> fs, mol_block |-> mb]

PredictFromFileOutcome(found, ls) ==
    IF found = "missing" THEN FileOutcome("InvalidInputError", <<>>, <<>>)
    ELSE IF Len(ls) < 3 THEN FileOutcome("InvalidInputError", <<>>, <<>>)
    ELSE LET fs == ParseFeatures(ls[2])
         IN  IF fs.kind # "ok" THEN FileOutcome(fs.kind, <<>>, <<>>)
             ELSE LET mol_block == ExtractMolBlock(SubSeq(ls, 3, Len(ls)))
                  IN  IF mol_block.kind # "ok" THEN FileOutcome(mol_block.kind, <<>>, <<>>)
                      ELSE FileOutcome("ok", fs.value, mol_block.value)

FileContents == UNION {[1..n -> LineKinds] : n \in 0..MaxLines}

-----------------------------------------------------------------------------
(* predictor.py: predict and its steps *)

(* Chem.SanitizeMol(mol, flags, catchErrors=True) in _sanitize_molecule: a
   failure is captured and returned, and the return value is dropped *)
SanitizeOutcomeUncaught(fails) == IF fails THEN "raised" ELSE "ok"

SanitizeOutcome(fails) == IF fails THEN "captured" ELSE "ok"

(* LogKPredictor._extract_prediction on what is at predictions.csv *)
ResultsFiles ==
    {"absent", "zero_bytes", "header_only", "one_column", "text_cell",
     "blank_cell", "inf", "number"}

ExtractPrediction(file) ==
    CASE file = "absent"      -> [kind |-> "FileNotFoundError", value |-> ""]  \* not caught
      [] file = "zero_bytes"  -> [kind |-> "ChempropError", value |-> ""]  \* EmptyDataError
      [] file = "header_only" -> [kind |-> "ChempropError", value |-> ""]  \* df.empty
      [] file = "one_column"  -> [kind |-> "ChempropError", value |-> ""]  \* < 2 columns
      [] file = "text_cell"   -> [kind |-> "ChempropError", value |-> ""]  \* ValueError
      [] file = "blank_cell"  -> [kind |-> "ok", value |-> "nan"]          \* float(nan)
      [] file = "inf"         -> [kind |-> "ok", value |-> "inf"]
      [] file = "number"      -> [kind |-> "ok", value |-> "finite"]

(* What the graph library makes of a MOL block: no molecule, or one of these
   graphs with the bonds it perceives as aromatic *)
SingleBond(i, j) == [b |-> i, e |-> j, t |-> "SINGLE"]
DoubleBond(i, j) == [b |-> i, e |-> j, t |-> "DOUBLE"]

SampleMols ==
    {[atoms |-> <<7, 26, 7>>, bonds |-> <<SingleBond(1, 2), SingleBond(2, 3)>>, arom |-> {}],
     [atoms |-> <<6, 7, 26>>, bonds |-> <<DoubleBond(1, 2), SingleBond(2, 3)>>,
      arom |-> {{1, 2}}],
     [atoms |-> <<6, 6>>, bonds |-> <<DoubleBond(1, 2)>>, arom |-> {}]}

SampleDescriptors == [i \in 1..NumDescriptors |-> <<i * 7>>]

SampleSmiles ==
    {<<"N", "->[", "N", "e", "H", "2", "+", "]<-", "N">>, <<"N", "N">>}

CallFeatureLists == {[i \in 1..n |-> i * 3125] : n \in FeatureLens}

SampleMolBlocks == {<<"text">>, <<"text", "text">>}

-----------------------------------------------------------------------------
(* Input graphs *)

(* Bond lists of a parsed MOL block over n atoms: at most one bond per atom
   pair, listed in any order, each written with its lower atom first *)
BondLists(n) ==
    UNION {{bs \in [1..k -> [b : 1..n, e : 1..n, t : InputBondTypes]] :
              /\ \A i \in 1..k : bs[i].b < bs[i].e
              /\ \A i, j \in 1..k : i # j => Pair(bs[i]) # Pair(bs[j])}
           : k \in 0..MaxBonds}

IsMetalDonorBond(bond, as, donor_atoms) ==
    \/ IsTransitionMetal(as[bond.b]) /\ as[bond.e] \in donor_atoms
    \/ IsTransitionMetal(as[bond.e]) /\ as[bond.b] \in donor_atoms

(* Aromaticity is perceived among covalent ring bonds only: never on a bond
   that set_dative_bonds makes dative, never on a bond to a metal. *)
Perceivable(bs, as) ==
    {Pair(bs[k]) : k \in {i \in 1..Len(bs) :
        ~IsTransitionMetal(as[bs[i].b]) /\ ~IsTransitionMetal(as[bs[i].e])}}

-----------------------------------------------------------------------------
(* Rest states of each part *)

IdleMetal == atomicNum = 0 /\ verdict = "none"

IdleGraph ==
    /\ atoms = <<>> /\ bonds = <<>> /\ donors = DEFAULT_DONOR_ATOMS
    /\ perceived = {} /\ sanitizeFails = FALSE
    /\ inBonds = <<>> /\ normCount = 0

IdleClean == smiles = <<>> /\ cleaned = <<>> /\ cleanDone = FALSE

NotCalled == [kind |-> "none", value |-> <<>>]

IdleCombine == features = <<>> /\ descriptors = <<>> /\ combined = NotCalled

NoCtor == [model_dir |-> "", env_dir |-> "", files |-> {}]

IdleCall ==
    /\ pc = "idle" /\ err = "" /\ result = "" /\ ctor = NoCtor
    /\ failedAt = "" /\ inputFile = "none"
    /\ lines = <<>> /\ molBlock = <<>> /\ resultsFile = ""

-----------------------------------------------------------------------------
(* SpecMetal: is_transition_metal applied to an atom *)

InitMetal ==
    /\ atomicNum \in 0..MaxAtomicNum
    /\ verdict = "none"
    /\ IdleGraph
    /\ IdleClean
    /\ IdleCombine
    /\ IdleCall

Classify ==
    /\ verdict = "none"
    /\ verdict' = IF IsTransitionMetal(atomicNum) THEN "true" ELSE "false"
    /\ UNCHANGED <<atomicNum, graphVars, cleanVars, combineVars, callVars>>

NextMetal == Classify

SpecMetal == InitMetal /\ [][NextMetal]_vars

-----------------------------------------------------------------------------
(* SpecGraph: set_dative_bonds applied, repeatedly, to a graph *)

InitGraph ==
    /\ IdleMetal
    /\ IdleClean
    /\ IdleCombine
    /\ IdleCall
    /\ \E n \in 1..MaxAtoms :
         /\ atoms \in [1..n -> Elements]
         /\ bonds \in BondLists(n)
    /\ donors \in DonorChoices
    /\ sanitizeFails \in BOOLEAN
    /\ perceived \in SUBSET Perceivable(bonds, atoms)
    /\ sanitizeFails => perceived = {}
    /\ inBonds = <<>>
    /\ normCount = 0

SetDativeBondsCall ==
    /\ normCount < MaxNormalize
    /\ inBonds' = bonds
    /\ bonds' = SetDativeBonds(bonds, atoms, donors, perceived, sanitizeFails)
    /\ normCount' = normCount + 1
    /\ UNCHANGED <<atoms, donors, perceived, sanitizeFails, metalVars, cleanVars, combineVars, callVars>>

NextGraph == SetDativeBondsCall

SpecGraph == InitGraph /\ [][NextGraph]_vars


-----------------------------------------------------------------------------
(* SpecClean: clean_smiles applied to a string *)

InitClean ==
    /\ IdleMetal
    /\ IdleGraph
    /\ IdleCombine
    /\ IdleCall
    /\ smiles \in SmilesStrings
    /\ cleaned = <<>>
    /\ cleanDone = FALSE

CleanSmilesCall ==
    /\ ~cleanDone
    /\ cleaned' = CleanSmiles(smiles)
    /\ cleanDone' = TRUE
    /\ UNCHANGED <<smiles, metalVars, graphVars, combineVars, callVars>>

NextClean == CleanSmilesCall

SpecClean == InitClean /\ [][NextClean]_vars

-----------------------------------------------------------------------------
(* SpecCombine: _combine_features applied to a feature list and a descriptor
   string *)

InitCombine ==
    /\ IdleMetal
    /\ IdleGraph
    /\ IdleClean
    /\ IdleCall
    /\ features \in FeatureLists
    /\ descriptors \in DescriptorStrings
    /\ combined = NotCalled

CombineFeaturesCall ==
    /\ combined.kind = "none"
    /\ combined' = CombineFeatures(features, descriptors)
    /\ UNCHANGED <<features, descriptors, metalVars, graphVars, cleanVars, callVars>>

NextCombine == CombineFeaturesCall

SpecCombine == InitCombine /\ [][NextCombine]_vars

-----------------------------------------------------------------------------
(* Spec: a LogKPredictor is constructed and asked for one prediction *)

Init ==
    /\ IdleMetal
    /\ IdleGraph
    /\ IdleClean
    /\ IdleCombine
    /\ pc = "new" /\ err = "" /\ result = "" /\ ctor = NoCtor
    /\ failedAt = "" /\ inputFile = "none"
    /\ lines = <<>> /\ molBlock = <<>> /\ resultsFile = ""

Raise(kind, step) == pc' = "raised" /\ err' = kind /\ failedAt' = step

(* LogKPredictor(model_dir) *)
Construct ==
    /\ pc = "new"
    /\ \E model_dir \in DirNames \cup {""}, env_dir \in DirNames \cup {""},
          files \in SUBSET DirNames :
         /\ ctor' = [model_dir |-> model_dir, env_dir |-> env_dir, files |-> files]
         /\ LET outcome == InitOutcome(model_dir, env_dir, files)
            IN  IF outcome = "ok"
                THEN pc' = "ready" /\ UNCHANGED <<err, failedAt>>
                ELSE pc' = "init_failed" /\ err' = outcome /\ failedAt' = "__init__"
    /\ UNCHANGED <<result, inputFile, lines, molBlock, resultsFile,
                   metalVars, graphVars, cleanVars, combineVars>>

(* predict_from_file(input_file), up to its call of predict *)
PredictFromFile ==
    /\ pc = "ready"
    /\ \E found \in {"missing", "read"} :
         \E ls \in IF found = "read" THEN FileContents ELSE {<<>>} :
            LET outcome == PredictFromFileOutcome(found, ls)
            IN  /\ inputFile' = found
                /\ lines' = ls
                /\ features' = outcome.features
                /\ molBlock' = outcome.mol_block
                /\ IF outcome.kind = "ok"
                   THEN pc' = "predict" /\ UNCHANGED <<err, failedAt>>
                   ELSE Raise(outcome.kind, "predict_from_file")
    /\ UNCHANGED <<result, ctor, resultsFile, descriptors, combined,
                   metalVars, graphVars, cleanVars>>

(* predict(features, mol_block) called directly *)
Predict ==
    /\ pc = "ready"
    /\ features' \in CallFeatureLists
    /\ molBlock' \in SampleMolBlocks
    /\ pc' = "predict"
    /\ UNCHANGED <<err, result, ctor, failedAt, inputFile, lines, resultsFile,
                   descriptors, combined, metalVars, graphVars, cleanVars>>

(* process_mol_block: Chem.MolFromMolBlock(mol_block, sanitize=False) *)
ParseMolBlock ==
    /\ pc = "predict"
    /\ \/ /\ Raise("MolecularProcessingError", "MolFromMolBlock")    \* mol is None
          /\ UNCHANGED graphVars
       \/ /\ \E m \in SampleMols :
                /\ atoms' = m.atoms
                /\ bonds' = m.bonds
                /\ sanitizeFails' \in BOOLEAN
                /\ perceived' = IF sanitizeFails' THEN {} ELSE m.arom
          /\ pc' = "dative"
          /\ UNCHANGED <<err, failedAt, donors, inBonds, normCount>>
    /\ UNCHANGED <<result, ctor, inputFile, lines, molBlock, resultsFile,
                   metalVars, cleanVars, combineVars>>

(* process_mol_block: set_dative_bonds(mol), donor_atoms left at its default *)
SetDativeBondsStep ==
    /\ pc = "dative"
    /\ IF SanitizeOutcome(sanitizeFails) = "raised"
       THEN /\ Raise("MolecularProcessingError", "set_dative_bonds")
            /\ UNCHANGED <<bonds, inBonds, normCount>>
       ELSE /\ inBonds' = bonds
            /\ bonds' = SetDativeBonds(bonds, atoms, donors, perceived, sanitizeFails)
            /\ normCount' = normCount + 1
            /\ pc' = "descriptors"
            /\ UNCHANGED <<err, failedAt>>
    /\ UNCHANGED <<atoms, donors, perceived, sanitizeFails, result, ctor, inputFile, lines,
                   molBlock, resultsFile, metalVars, cleanVars, combineVars>>

(* process_mol_block: calculate_descriptors(mol_with_dative) *)
CalculateDescriptors ==
    /\ pc = "descriptors"
    /\ \/ /\ Raise("MolecularProcessingError", "calculate_descriptors")
          /\ UNCHANGED descriptors
       \/ /\ descriptors' = SampleDescriptors
          /\ pc' = "smiles"
          /\ UNCHANGED <<err, failedAt>>
    /\ UNCHANGED <<features, combined, result, ctor, inputFile, lines, molBlock,
                   resultsFile, metalVars, graphVars, cleanVars>>

(* process_mol_block: Chem.MolToSmiles and clean_smiles *)
GenerateSmiles ==
    /\ pc = "smiles"
    /\ smiles' \in SampleSmiles
    /\ cleaned' = CleanSmiles(smiles')
    /\ cleanDone' = TRUE
    /\ pc' = "combine"
    /\ UNCHANGED <<err, failedAt, result, ctor, inputFile, lines, molBlock, resultsFile,
                   metalVars, graphVars, combineVars>>

(* predict: _combine_features(features, descriptors_str); its exceptions are
   not caught *)
CombineStep ==
    /\ pc = "combine"
    /\ combined' = CombineFeatures(features, descriptors)
    /\ IF combined'.kind = "ok"
       THEN pc' = "files" /\ UNCHANGED <<err, failedAt>>
       ELSE Raise(combined'.kind, "_combine_features")
    /\ UNCHANGED <<features, descriptors, result, ctor, inputFile, lines, molBlock,
                   resultsFile, metalVars, graphVars, cleanVars>>

(* predict: _create_input_files in the temporary directory *)
CreateInputFiles ==
    /\ pc = "files"
    /\ pc' = "engine"
    /\ UNCHANGED <<err, failedAt, result, ctor, inputFile, lines, molBlock, resultsFile,
                   metalVars, graphVars, cleanVars, combineVars>>

(* predict: _run_chemprop_prediction *)
RunChempropPrediction ==
    /\ pc = "engine"
    /\ \/ /\ Raise("ChempropError", "_run_chemprop_prediction")   \* CalledProcessError
          /\ UNCHANGED resultsFile
       \/ /\ Raise("ChempropError", "_run_chemprop_prediction")   \* FileNotFoundError
          /\ UNCHANGED resultsFile
       \/ /\ resultsFile' \in ResultsFiles                          \* exit status 0
          /\ pc' = "extract"
          /\ UNCHANGED <<err, failedAt>>
    /\ UNCHANGED <<result, ctor, inputFile, lines, molBlock,
                   metalVars, graphVars, cleanVars, combineVars>>

(* predict: _extract_prediction(predictions_csv) *)
ExtractPredictionStep ==
    /\ pc = "extract"
    /\ LET outcome == ExtractPrediction(resultsFile)
       IN  IF outcome.kind = "ok"
           THEN pc' = "returned" /\ result' = outcome.value /\ UNCHANGED <<err, failedAt>>
           ELSE Raise(outcome.kind, "_extract_prediction") /\ UNCHANGED result
    /\ UNCHANGED <<ctor, inputFile, lines, molBlock, resultsFile,
                   metalVars, graphVars, cleanVars, combineVars>>

Next ==
    \/ Construct
    \/ PredictFromFile
    \/ Predict
    \/ ParseMolBlock
    \/ SetDativeBondsStep
    \/ CalculateDescriptors
    \/ GenerateSmiles
    \/ CombineStep
    \/ CreateInputFiles
    \/ RunChempropPrediction
    \/ ExtractPredictionStep

Spec == Init /\ [][Next]_vars

-----------------------------------------------------------------------------
(* Claims about is_transition_metal *)

NonMetalNumbers == {1, 5, 6, 7, 8, 9, 14, 15, 16, 17, 35}

(* C3: is_transition_metal answers false exactly for the atomic numbers 1,
   5 to 9, 14 to 17 and 35, and true for every other atomic number of the
   range; it always answers. *)
C3_Classification ==
    verdict # "none" =>
        /\ verdict \in {"true", "false"}
        /\ (verdict = "false") <=> (atomicNum \in NonMetalNumbers)

C3_Witness == verdict = "false" /\ atomicNum = BROMINE

-----------------------------------------------------------------------------
(* Claims about set_dative_bonds *)

HasBond(bs, b, e, t) == \E j \in 1..Len(bs) : bs[j] = [b |-> b, e |-> e, t |-> t]

DonorEnd(bond, as) == IF as[bond.b] \in donors THEN bond.b ELSE bond.e
MetalEnd(bond, as) == IF as[bond.b] \in donors THEN bond.e ELSE bond.b

(* The classification re-sanitization leaves on a covalent bond *)
Resanitized(bond) ==
    IF ~sanitizeFails /\ Pair(bond) \in perceived THEN "AROMATIC" ELSE bond.t

DativeCount(bs) == Cardinality({k \in 1..Len(bs) : bs[k].t = "DATIVE"})

MetalDonorBondsDative ==
    \A k \in 1..Len(inBonds) :
        IsMetalDonorBond(inBonds[k], atoms, donors) =>
            HasBond(bonds, DonorEnd(inBonds[k], atoms), MetalEnd(inBonds[k], atoms), "DATIVE")

(* C10 as stated: after set_dative_bonds every metal-donor bond is a dative
   bond directed donor to metal, every other bond keeps its atom pair and its
   classification, and the number of bonds is that of the input. *)
C10_AsStated ==
    normCount >= 1 =>
        /\ MetalDonorBondsDative
        /\ \A k \in 1..Len(inBonds) :
              ~IsMetalDonorBond(inBonds[k], atoms, donors) =>
                  HasBond(bonds, inBonds[k].b, inBonds[k].e, inBonds[k].t)
        /\ Len(bonds) = Len(inBonds)

(* C10 amended: after set_dative_bonds every metal-donor bond is a dative
   bond directed donor to metal; every other bond keeps its atom pair, and
   keeps its classification unless the closing re-sanitization perceives it
   as aromatic, in which case it is an aromatic bond; the number of bonds is
   that of the input. *)
C10_DativeAndRest ==
    normCount >= 1 =>
        /\ MetalDonorBondsDative
        /\ \A k \in 1..Len(inBonds) :
              ~IsMetalDonorBond(inBonds[k], atoms, donors) =>
                  HasBond(bonds, inBonds[k].b, inBonds[k].e, Resanitized(inBonds[k]))
        /\ Len(bonds) = Len(inBonds)

(* A metal bonded to two nitrogen donors: exactly two dative bonds *)
C10_Witness ==
    /\ normCount = 1
    /\ atoms = <<7, 26, 7>>
    /\ Len(inBonds) = 2
    /\ DativeCount(inBonds) = 0
    /\ DativeCount(bonds) = 2

NoMetalDonorBond(bs) ==
    \A k \in 1..Len(bs) : ~IsMetalDonorBond(bs[k], atoms, donors)

Idempotent == normCount >= 2 => Content(bonds) = Content(inBonds)

(* C6 as stated: normalizing a normalized graph changes nothing of its
   structural content, and normalizing a graph without metal-donor bonds
   leaves every bond classification as it was. *)
C6_AsStated ==
    /\ Idempotent
    /\ (normCount >= 1 /\ NoMetalDonorBond(inBonds)) =>
          \A k \in 1..Len(inBonds) :
              HasBond(bonds, inBonds[k].b, inBonds[k].e, inBonds[k].t)

(* C6 amended: normalizing a normalized graph changes nothing of its
   structural content; normalizing a graph without metal-donor bonds leaves
   every bond's atom pair as it was, and its classification too except on
   the bonds re-sanitization perceives as aromatic, which become aromatic. *)
C6_Idempotence ==
    /\ Idempotent
    /\ (normCount >= 1 /\ NoMetalDonorBond(inBonds)) =>
          /\ Len(bonds) = Len(inBonds)
          /\ \A k \in 1..Len(inBonds) :
                HasBond(bonds, inBonds[k].b, inBonds[k].e, Resanitized(inBonds[k]))

(* A second normalization of a graph that holds a dative and an aromatic bond *)
C6_Witness ==
    /\ normCount = 2
    /\ DativeCount(inBonds) >= 1
    /\ \E k \in 1..Len(inBonds) : inBonds[k].t = "AROMATIC"

-----------------------------------------------------------------------------
(* Claims about clean_smiles *)

(* A hydrogen-count token directly after "->[" and an element symbol *)
ResidualAfterOpen(s) ==
    \E i \in 1..Len(s) :
        /\ s[i] = "->[" /\ At(s, i + 1) \in UpperCase
        /\ \/ At(s, i + 2) = "H"
           \/ At(s, i + 2) \in LowerCase /\ At(s, i + 3) = "H"

(* A hydrogen-count token directly before the charge and "]<-" *)
ResidualBeforeClose(s) ==
    \E i \in 1..Len(s) :
        /\ s[i] = "H"
        /\ \/ ChargeCloseLen(s, i + 1) > 0
           \/ At(s, i + 1) \in Digits /\ ChargeCloseLen(s, i + 2) > 0

(* A hydrogen-count token directly followed by "H", or by a lower-case
   letter and "H": H\d?[a-z]?H *)
StackedHydrogens(s) ==
    \E i \in 1..Len(s) :
        /\ s[i] = "H"
        /\ \E d \in {0, 1}, l \in {0, 1} :
              /\ d = 1 => At(s, i + 1) \in Digits
              /\ l = 1 => At(s, i + d + 1) \in LowerCase
              /\ At(s, i + d + l + 1) = "H"

(* C9 as stated: for every string, the cleaned string holds no hydrogen-count
   token next to a dative marker. *)
C9_AsStated ==
    cleanDone => ~ResidualAfterOpen(cleaned) /\ ~ResidualBeforeClose(cleaned)

(* C9 amended: for every string in which no hydrogen-count token is directly
   followed by H or by a lower-case letter and H, the cleaned string holds no
   hydrogen-count token next to a dative marker. *)
C9_NoResidual ==
    (cleanDone /\ ~StackedHydrogens(smiles)) =>
        ~ResidualAfterOpen(cleaned) /\ ~ResidualBeforeClose(cleaned)

(* Both substitutions removed a token from a string of the amended claim *)
C9_Witness ==
    /\ cleanDone
    /\ ~StackedHydrogens(smiles)
    /\ ResidualAfterOpen(smiles)
    /\ ResidualBeforeClose(smiles)
    /\ Len(cleaned) = Len(smiles) - 2

-----------------------------------------------------------------------------
(* Claims about _combine_features *)

(* The combined vector: the rounded scalar features, then the descriptors *)
CombinedVector ==
    [i \in 1..(Len(features) + Len(descriptors)) |->
        IF i <= Len(features) THEN Round4(features[i])
        ELSE descriptors[i - Len(features)][1]]

TruePositions == {i \in 1..Len(FEATURE_MASK) : FEATURE_MASK[i]}

(* The k-th true position of the mask, counting from 1 *)
TruePosition(k) ==
    CHOOSE i \in TruePositions : Cardinality({j \in TruePositions : j <= i}) = k

(* C1: when the combined vector is as long as FEATURE_MASK, the output holds
   exactly the values at the true positions of the mask, in ascending order
   of position, so it is as long as the mask has true entries. *)
C1_MaskedInOrder ==
    (combined.kind # "none" /\ Len(features) + Len(descriptors) = Len(FEATURE_MASK)
        /\ \A i \in 1..Len(descriptors) : descriptors[i] # <<>>) =>
        /\ combined.kind = "ok"
        /\ Len(combined.value) = Cardinality(TruePositions)
        /\ \A k \in 1..Len(combined.value) :
              combined.value[k] = <<CombinedVector[TruePosition(k)]>>

(* Ten scalar features, one of them changed by the rounding, and 40 descriptors *)
C1_Witness ==
    /\ combined.kind = "ok"
    /\ Len(features) = NumScalarFeatures
    /\ Len(descriptors) = NumDescriptors
    /\ \E i \in 1..Len(features) : Round4(features[i]) # features[i]

(* C2: a combined vector of another length than the mask makes feature
   assembly fail with a configuration error, never with an index error or
   another error, and never yields a vector. *)
C2_AsStated ==
    (/\ combined.kind # "none"
     /\ features # <<>>
     /\ \A i \in 1..Len(descriptors) : descriptors[i] # <<>>
     /\ Len(features) + Len(descriptors) # Len(FEATURE_MASK)) =>
        combined.kind = "ConfigurationError"

-----------------------------------------------------------------------------
(* Claims about construction and the prediction call *)

DomainErrors ==
    {"EnvironmentError", "ModelNotFoundError", "InvalidInputError",
     "MolecularProcessingError", "ChempropError"}

RaisedInvalidInput ==
    pc = "raised" /\ err = "InvalidInputError" /\ failedAt = "predict_from_file"

(* No line of the structural block (the lines after the feature line) is $$$$ *)
MissingTerminator(ls) == \A i \in 3..Len(ls) : ~IsEndMarker(ls[i])

(* C4 as stated: predict_from_file on a record of fewer than 3 lines, or on
   one whose structural block has no $$$$ line, raises InvalidInput and goes
   no further. *)
C4_AsStated ==
    (inputFile = "read" /\ (Len(lines) < 3 \/ MissingTerminator(lines))) =>
        RaisedInvalidInput

(* C4 amended: predict_from_file on a record of fewer than 3 lines, or on one
   whose structural block is empty (its third line is $$$$), raises
   InvalidInput and goes no further. *)
C4_EmptyRecord ==
    (inputFile = "read" /\ (Len(lines) < 3 \/ IsEndMarker(lines[3]))) =>
        RaisedInvalidInput

(* A record with a good feature line and an empty structural block *)
C4_Witness ==
    /\ inputFile = "read"
    /\ Len(lines) >= 3
    /\ lines[2] = "features"
    /\ IsEndMarker(lines[3])
    /\ RaisedInvalidInput

(* C5: a prediction call ends by returning a finite number or by raising one
   of the domain errors. *)
C5_AsStated ==
    /\ pc = "returned" => result = "finite"
    /\ pc = "raised" => err \in DomainErrors

LaterStages == {"descriptors", "smiles", "combine", "files", "engine", "extract", "returned"}

(* C7 as stated: a call whose re-sanitization failed never goes on to
   descriptor calculation, sequence generation or the external engine. *)
C7_AsStated == sanitizeFails => pc \notin LaterStages

(* C7 amended: a failure of the re-sanitization is captured, not raised:
   set_dative_bonds returns the graph and the call goes on to descriptor
   calculation; the call never fails in set_dative_bonds. *)
C7_Captured ==
    sanitizeFails =>
        /\ failedAt # "set_dative_bonds"
        /\ pc # "dative" => normCount = 1

(* A call whose re-sanitization failed returned a prediction *)
C7_Witness == sanitizeFails /\ pc = "returned" /\ normCount = 1

ResolvedDir == IF ctor.model_dir # "" THEN ctor.model_dir ELSE ctor.env_dir

(* C8: construction with neither an explicit directory nor the environment
   variable raises EnvironmentError; construction with the model file absent
   under the resolved directory raises ModelNotFound; so every step of a
   prediction happens on an object whose model file was found present. *)
C8_ValidatedFirst ==
    pc # "new" =>
        /\ ResolvedDir = "" => (pc = "init_failed" /\ err = "EnvironmentError")
        /\ (ResolvedDir # "" /\ ResolvedDir \notin ctor.files) =>
              (pc = "init_failed" /\ err = "ModelNotFoundError")
        /\ pc # "init_failed" => ResolvedDir \in ctor.files

(* Construction with a directory that holds no model file *)
C8_Witness ==
    /\ pc = "init_failed"
    /\ err = "ModelNotFoundError"
    /\ ResolvedDir # ""
    /\ ResolvedDir \notin ctor.files

=============================================================================
